---- MODULE Spec2Model ----
(***************************************************************************)
(* Model of the trade-analysis API: analyze_trades and                     *)
(* generate_coach_response as they are written in src/app.py (the FastAPI  *)
(* application, entry "app") and in src/functions/trade-analysis.py (the   *)
(* serverless handler, entry "fn"), and the HTTP handlers that call them.  *)
(*                                                                         *)
(* Text that the code inspects (trade_type labels, notes, user messages,   *)
(* generated text) is a sequence of one-character strings, so that         *)
(* strip(), lower(), split() and the `in` substring test are computed.     *)
(* Real numbers are exact fractions <<numerator, denominator>>.            *)
(***************************************************************************)
EXTENDS Integers, Sequences, FiniteSets, TLC

\* ------------------------------------------------------------------ bounds
\* Longest sequence of fully varied trade records the store returns.
MaxTrades == 3
\* Longest sequence of records that vary in their trade_type label only.
MaxLabelled == 7

\* ------------------------------------------------------- program constants
\* strategies[:5]
StrategyCap == 5
\* strengths[:3], weaknesses[:3], suggestions[:3]
FindingCap == 3
\* sample_size = min(50, len(trades))
SampleSize == 50
\* len(advice_part) < 10
MinAdviceLen == 10
\* advice_part[:500]
AdviceCap == 500
\* len(coach_response) > 1000
ChatCap == 1000

\* -------------------------------------------------------------------- text
Min(a, b) == IF a < b THEN a ELSE b

Range(s) == {s[i] : i \in 1..Len(s)}

\* s[:n] for n >= 0
Prefix(s, n) == SubSeq(s, 1, Min(n, Len(s)))

Rep(c, n) == [i \in 1..n |-> c]

LowerMap ==
  "A" :> "a" @@ "B" :> "b" @@ "C" :> "c" @@ "D" :> "d" @@ "E" :> "e" @@
  "F" :> "f" @@ "G" :> "g" @@ "H" :> "h" @@ "I" :> "i" @@ "J" :> "j" @@
  "K" :> "k" @@ "L" :> "l" @@ "M" :> "m" @@ "N" :> "n" @@ "O" :> "o" @@
  "P" :> "p" @@ "Q" :> "q" @@ "R" :> "r" @@ "S" :> "s" @@ "T" :> "t" @@
  "U" :> "u" @@ "V" :> "v" @@ "W" :> "w" @@ "X" :> "x" @@ "Y" :> "y" @@
  "Z" :> "z"

\* str.lower()
Lower(t) == [i \in 1..Len(t) |-> IF t[i] \in DOMAIN LowerMap THEN LowerMap[t[i]] ELSE t[i]]

Whitespace == {" ", "\t", "\n"}

\* str.strip(): drops leading and trailing whitespace
Strip(t) ==
  IF \A i \in 1..Len(t) : t[i] \in Whitespace THEN << >>
  ELSE LET lo == CHOOSE i \in 1..Len(t) :
                   t[i] \notin Whitespace /\ \A j \in 1..(i - 1) : t[j] \in Whitespace
           hi == CHOOSE i \in 1..Len(t) :
                   t[i] \notin Whitespace /\ \A j \in (i + 1)..Len(t) : t[j] \in Whitespace
       IN SubSeq(t, lo, hi)

\* The positions at which sub occurs in t
Occurrences(t, sub) ==
  {i \in 1..(Len(t) - Len(sub) + 1) : SubSeq(t, i, i + Len(sub) - 1) = sub}

\* sub in t
Contains(t, sub) == Occurrences(t, sub) # {}

\* t.split(sep)[-1]: what follows the last occurrence of sep, the whole text
\* when sep does not occur.  (No separator of the program overlaps itself, so
\* the last occurrence is the last one the left-to-right split finds.)
AfterLast(t, sep) ==
  LET occ == Occurrences(t, sep)
  IN IF occ = {} THEN t
     ELSE LET last == CHOOSE i \in occ : \A j \in occ : j <= i
          IN SubSeq(t, last + Len(sep), Len(t))

\* parts[lo] sep parts[lo+1] sep ... parts[hi], for lo <= hi (halving keeps the
\* evaluation shallow)
RECURSIVE JoinRange(_, _, _, _)
JoinRange(sep, parts, lo, hi) ==
  IF lo = hi THEN parts[lo]
  ELSE LET mid == (lo + hi) \div 2
       IN JoinRange(sep, parts, lo, mid) \o sep \o JoinRange(sep, parts, mid + 1, hi)

\* sep.join(parts)
Join(sep, parts) == IF parts = << >> THEN << >> ELSE JoinRange(sep, parts, 1, Len(parts))

\* The elements of s at the indices in keep, in the order of s
Select(s, keep) ==
  [k \in 1..Cardinality(keep) |->
     s[CHOOSE i \in keep : Cardinality({j \in keep : j <= i}) = k]]

\* f(lo) + ... + f(hi); 0 when lo > hi
RECURSIVE SumRange(_, _, _)
SumRange(f, lo, hi) ==
  IF lo > hi THEN 0
  ELSE IF lo = hi THEN f[lo]
  ELSE LET mid == (lo + hi) \div 2
       IN SumRange(f, lo, mid) + SumRange(f, mid + 1, hi)

\* ----------------------------------------------------------- trade records
\* A column of a record: the key is absent, the value is null (None), or a value.
Absent == [k |-> "absent"]
Null == [k |-> "null"]
Val(v) == [k |-> "val", v |-> v]

\* dict.get(key, default)
DictGet(trade, key, default) ==
  IF trade[key].k = "absent" THEN Val(default) ELSE trade[key]

\* dict.get(key)
DictGetNone(trade, key) ==
  IF trade[key].k = "absent" THEN Null ELSE trade[key]

\* Python truth value of a text column: None and '' are falsy
Truthy(f) == f.k = "val" /\ f.v # << >>

Trade(pnl, trade_type, notes) == [pnl |-> pnl, trade_type |-> trade_type, notes |-> notes]

\* ----------------------------------------------------------- analyze_trades
Raised(exc) == [raised |-> TRUE, exc |-> exc]

Item(s) == <<s>>

DiverseItem(n) == <<"Diverse trading approaches (", n, " different strategies)">>

EmptyAnalysisByRules ==
  [raised |-> FALSE,
   win_rate |-> <<0, 1>>,
   avg_profit_loss |-> <<0, 1>>,
   strategies |-> << >>,
   strengths |-> << >>,
   weaknesses |-> <<Item("Below 50% win rate"), Item("Negative average P&L")>>,
   suggestions |-> <<Item("Focus on improving your win rate by reviewing losing trades"),
                     Item("Work on improving your average profit per trade"),
                     Item("Consider exploring more trading strategies to diversify your approach")>>]

\* The result returned at once for no trades
EmptyAnalysis ==
  [raised |-> FALSE,
   win_rate |-> <<0, 1>>,
   avg_profit_loss |-> <<0, 1>>,
   strategies |-> << >>,
   strengths |-> << >>,
   weaknesses |-> << >>,
   suggestions |-> <<Item("Start recording your trades to get personalized analysis.")>>]

\* strategy = trade.get('trade_type', '').strip()
StrategyOf(trade) == Strip(DictGet(trade, "trade_type", << >>).v)

\* The keys of strategies_count in insertion order: each non-empty stripped
\* label, at its first appearance.
StrategyKeys(trades) ==
  LET s == [i \in 1..Len(trades) |-> StrategyOf(trades[i])]
      first == {i \in 1..Len(trades) : s[i] # << >> /\ \A j \in 1..(i - 1) : s[j] # s[i]}
  IN Select(s, first)

\* strategies_count[s]
StrategyCount(trades, s) == Cardinality({i \in 1..Len(trades) : StrategyOf(trades[i]) = s})

InsertDescUnstable(sorted, x, w) ==
  LET ahead == Cardinality({j \in 1..Len(sorted) : w[sorted[j]] > w[x]})
  IN SubSeq(sorted, 1, ahead) \o <<x>> \o SubSeq(sorted, ahead + 1, Len(sorted))

\* Where a stable descending sort puts x, which comes after all the elements of
\* sorted in the input: behind every element whose weight is >= its own.
InsertDesc(sorted, x, w) ==
  LET ahead == Cardinality({j \in 1..Len(sorted) : w[sorted[j]] >= w[x]})
  IN SubSeq(sorted, 1, ahead) \o <<x>> \o SubSeq(sorted, ahead + 1, Len(sorted))

\* sorted(keys, key=lambda s: w[s], reverse=True): stable, so keys of equal
\* weight keep their input order (reverse=True preserves it too).
RECURSIVE SortedDesc(_, _, _)
SortedDesc(keys, i, w) ==
  IF i = 0 THEN << >>
  ELSE InsertDesc(SortedDesc(keys, i - 1, w), keys[i], w)

\* strategies = sorted(strategies_count.keys(), key=..., reverse=True)[:5]
TopStrategies(trades) ==
  LET keys == StrategyKeys(trades)
      strategies_count == [s \in Range(keys) |-> StrategyCount(trades, s)]
  IN Prefix(SortedDesc(keys, Len(keys), strategies_count), StrategyCap)

\* sampled_trades in src/functions/trade-analysis.py: the first 50
SampledFn(trades) == Prefix(trades, Min(SampleSize, Len(trades)))

\* sampled_trades in src/app.py: all of them up to 50 records, else the records
\* at 50 indices drawn without replacement (choice: the indices drawn).
SampledApp(trades, choice) ==
  LET sample_size == Min(SampleSize, Len(trades))
  IN IF Len(trades) <= sample_size THEN Prefix(trades, sample_size)
     ELSE [i \in 1..sample_size |-> trades[choice[i]]]

\* [trade.get('notes', '') for trade in sampled_trades if trade.get('notes')]
NotesOf(sampled) ==
  LET kept == {i \in 1..Len(sampled) : Truthy(DictGetNone(sampled[i], "notes"))}
  IN Select([i \in 1..Len(sampled) |-> DictGet(sampled[i], "notes", << >>).v], kept)

\* all_notes = " ".join(...)
AllNotes(sampled) == Join(<<" ">>, NotesOf(sampled))

KwEmotion == <<"e","m","o","t","i","o","n">>
KwFear == <<"f","e","a","r">>
KwGreed == <<"g","r","e","e","d">>
KwPlan == <<"p","l","a","n">>

EmotionalNotesNoFear(all_notes) ==
  \/ Contains(Lower(all_notes), KwEmotion)
  \/ Contains(Lower(all_notes), KwGreed)

\* The emotional-notes test of analyze_trades
EmotionalNotes(all_notes) ==
  \/ Contains(Lower(all_notes), KwEmotion)
  \/ Contains(Lower(all_notes), KwFear)
  \/ Contains(Lower(all_notes), KwGreed)

PlanningNotes(all_notes) == Contains(Lower(all_notes), KwPlan)

LimitOff(xs, n) == xs

\* The slices of the returned result
Limit(xs, n) == Prefix(xs, n)

\* len(strategies) in the diversity rule: strategies is already cut to 5 there
DiversityCount(strategies) == Len(strategies)

\* win_rate > 0.5 for win_rate = profitable_trades / len(trades)
AboveHalf(profitable, n) == 2 * profitable > n

ProfitableTradesNonNegative(trades) ==
  Cardinality({i \in 1..Len(trades) : DictGet(trades[i], "pnl", 0).v >= 0})

\* profitable_trades = sum(1 for trade in trades if trade.get('pnl', 0) > 0)
ProfitableTrades(trades) ==
  Cardinality({i \in 1..Len(trades) : DictGet(trades[i], "pnl", 0).v > 0})

\* The body of analyze_trades, common to both files, given the sampled records.
AnalyzeCore(trades, sampled) ==
  IF trades = << >> THEN EmptyAnalysis
  ELSE IF \E i \in 1..Len(trades) : DictGet(trades[i], "pnl", 0).k = "null"
  THEN Raised("TypeError")
  ELSE IF \E i \in 1..Len(trades) : DictGet(trades[i], "trade_type", << >>).k = "null"
  THEN Raised("AttributeError")
  ELSE
    LET n == Len(trades)
        pnl == [i \in 1..n |-> DictGet(trades[i], "pnl", 0).v]
        profitable_trades == ProfitableTrades(trades)
        total_pnl == SumRange(pnl, 1, n)
        strategies == TopStrategies(trades)
        all_notes == AllNotes(sampled)
        emotional == all_notes # << >> /\ EmotionalNotes(all_notes)
        planning == all_notes # << >> /\ PlanningNotes(all_notes)
        diverse == DiversityCount(strategies) > 2
        strengths ==
          (IF AboveHalf(profitable_trades, n) THEN <<Item("Above 50% win rate")>> ELSE << >>)
          \o (IF total_pnl > 0 THEN <<Item("Positive average P&L")>> ELSE << >>)
          \o (IF diverse THEN <<DiverseItem(DiversityCount(strategies))>> ELSE << >>)
          \o (IF planning THEN <<Item("Evidence of trade planning in notes")>> ELSE << >>)
        weaknesses ==
          (IF AboveHalf(profitable_trades, n) THEN << >> ELSE <<Item("Below 50% win rate")>>)
          \o (IF total_pnl > 0 THEN << >> ELSE <<Item("Negative average P&L")>>)
          \o (IF emotional THEN <<Item("Emotional trading noted in multiple trades")>> ELSE << >>)
        suggestions ==
          (IF AboveHalf(profitable_trades, n) THEN << >>
           ELSE <<Item("Focus on improving your win rate by reviewing losing trades")>>)
          \o (IF total_pnl > 0 THEN << >>
              ELSE <<Item("Work on improving your average profit per trade")>>)
          \o (IF diverse THEN << >>
              ELSE <<Item("Consider exploring more trading strategies to diversify your approach")>>)
          \o (IF emotional THEN <<Item("Work on emotional discipline during trading")>> ELSE << >>)
    IN [raised |-> FALSE,
        win_rate |-> <<profitable_trades, n>>,
        avg_profit_loss |-> <<total_pnl, n>>,
        strategies |-> Limit(strategies, StrategyCap),
        strengths |-> Limit(strengths, FindingCap),
        weaknesses |-> Limit(weaknesses, FindingCap),
        suggestions |-> Limit(suggestions, FindingCap)]

\* analyze_trades of src/app.py (choice: the indices np.random.choice draws)
AnalyzeTradesApp(trades, choice) == AnalyzeCore(trades, SampledApp(trades, choice))

\* analyze_trades of src/functions/trade-analysis.py
AnalyzeTradesFn(trades) == AnalyzeCore(trades, SampledFn(trades))

\* ------------------------------------------------------------------- state
VARIABLES
  db,             \* the trade records the store holds for the user, newest first
  generator,      \* the text-generation pipeline loaded at import: "loaded" or "none"
  op,             \* the operation in hand: "none", "analyze_trades", "GET", "POST", "generate_coach_response"
  entry,          \* the file whose code runs: "app" (src/app.py) or "fn" (trade-analysis.py)
  pc,             \* where the operation stands
  request,        \* the request (or the call's arguments)
  analysis,       \* what analyze_trades returned (or that it raised)
  coach_response, \* what generate_coach_response returned
  store,          \* the outcome of the store read: "none" yet, "ok" or "error"
  backend,        \* what the generator call did: raised, malformed output, a text
  response,       \* the HTTP response sent
  events          \* the calls made to the collaborators and the analyzer, in order

vars == <<db, generator, op, entry, pc, request, store, backend, analysis, coach_response,
          response, events>>

None == [k |-> "none"]

Entries == {"app", "fn"}

\* ------------------------------------------------------------------ inputs
SeqsUpTo(S, lo, hi) == UNION {[1..k -> S] : k \in lo..hi}

TA == <<"a">>
TB == <<"b">>
TC == <<"c">>
TBPadded == <<" ", "b", "\t">>
TBlank == <<" ", " ">>

NFear == <<"I"," ","f","e","l","t"," ","f","e","a","r">>
NGreed == <<"G","R","E","E","D">>
NEmotional == <<"e","m","o","t","i","o","n","a","l">>
NPlan == <<"m","y"," ","p","l","a","n">>
NPlanUpper == <<"P","l","a","n"," ","A">>
NOk == <<"o","k">>

\* Records that vary in every column: winners, losers, break-even, absent and
\* null columns, padded and blank labels, notes with and without the keywords.
RichRecords ==
  { Trade(Absent, Absent, Absent),
    Trade(Null, Val(TA), Val(NOk)),
    Trade(Val(5), Null, Val(NOk)),
    Trade(Val(0), Val(TBlank), Null),
    Trade(Val(5), Val(TA), Val(NPlan)),
    Trade(Val(5), Val(TBPadded), Val(NPlanUpper)),
    Trade(Val(5), Val(TC), Val(<< >>)),
    Trade(Val(-3), Val(TA), Val(NFear)),
    Trade(Val(-3), Val(TB), Val(NGreed)),
    Trade(Val(-3), Val(TC), Val(NEmotional)),
    Trade(Val(-1), Val(<< >>), Val(NOk)) }

RichInputs == SeqsUpTo(RichRecords, 0, MaxTrades)

\* Longer sequences of records that differ in the label only.  The analyzer
\* uses a label as a dictionary key and nothing else, so the sequences are
\* taken up to renaming: Growth(k) holds every pattern of equal and different
\* labels over k records (a record carries a label seen before or the next new
\* one), and each pattern is named in two orders, so that the order of first
\* appearance is the alphabetical one in some inputs and its reverse in others.
LabelOrders ==
  { << <<"a">>, <<"b">>, <<"c">>, <<"d">>, <<"e">>, <<"f">> >>,
    << <<"f">>, <<"e">>, <<"d">>, <<"c">>, <<"b">>, <<"a">> >> }

NumLabels == Len(CHOOSE o \in LabelOrders : TRUE)

MaxOf(s) == IF s = << >> THEN 0 ELSE CHOOSE m \in Range(s) : \A x \in Range(s) : x <= m

RECURSIVE Growth(_)
Growth(k) ==
  IF k = 0 THEN {<< >>}
  ELSE UNION {{Append(g, j) : j \in 1..Min(MaxOf(g) + 1, NumLabels)} : g \in Growth(k - 1)}

LabelInputs ==
  UNION { { [i \in 1..Len(g) |-> Trade(Val(1), Val(order[g[i]]), Absent)] : g \in Growth(k) }
          : k \in (MaxTrades + 1)..MaxLabelled, order \in LabelOrders }

\* One record more than the notes sample takes: losing trades, one of them with
\* a note about fear, at the head, at the last sampled place or behind it.
LongLen == SampleSize + 1

LongInputs ==
  { [i \in 1..LongLen |->
       IF i = at THEN Trade(Val(-3), Val(TA), Val(NFear)) ELSE Trade(Val(-3), Val(TA), Absent)]
    : at \in {1, SampleSize, LongLen} }

AnalyzeInputs == RichInputs \cup LabelInputs \cup LongInputs

\* What np.random.choice(len(trades), sample_size, replace=False) can draw when
\* it is called (len(trades) > 50).  The model's long inputs have 51 records, so
\* a draw leaves one index out; the indices are kept in ascending order (no
\* keyword contains the " " that joins the notes, so their order does not
\* change what the keyword tests see).
Choices(n) ==
  IF n <= SampleSize THEN {<< >>}
  ELSE {[i \in 1..(n - 1) |-> IF i < out THEN i ELSE i + 1] : out \in 1..n}

\* ------------------------------------------- GET /api/trade-analysis, calls
InitAnalyze ==
  /\ db \in AnalyzeInputs
  /\ generator = "none"
  /\ op = "none"
  /\ entry = "none"
  /\ pc = "start"
  /\ request = None
  /\ store = "none"
  /\ backend = None
  /\ analysis = None
  /\ coach_response = None
  /\ response = None
  /\ events = << >>

\* A direct call of analyze_trades(trades) of src/app.py
CallAnalyzeApp ==
  /\ pc = "start"
  /\ \E choice \in Choices(Len(db)) :
       analysis' = AnalyzeTradesApp(db, choice)
  /\ op' = "analyze_trades"
  /\ entry' = "app"
  /\ pc' = "done"
  /\ events' = Append(events, "analyze")
  /\ UNCHANGED <<db, generator, request, store, backend, coach_response, response>>

\* A direct call of analyze_trades(trades) of src/functions/trade-analysis.py
CallAnalyzeFn ==
  /\ pc = "start"
  /\ analysis' = AnalyzeTradesFn(db)
  /\ op' = "analyze_trades"
  /\ entry' = "fn"
  /\ pc' = "done"
  /\ events' = Append(events, "analyze")
  /\ UNCHANGED <<db, generator, request, store, backend, coach_response, response>>

\* The "Limit the size of returned data" block of get_trade_analysis
TruncateAnalysis(a) ==
  [a EXCEPT
     !.strategies = IF Len(@) > StrategyCap THEN Prefix(@, StrategyCap) ELSE @,
     !.strengths = IF Len(@) > FindingCap THEN Prefix(@, FindingCap) ELSE @,
     !.weaknesses = IF Len(@) > FindingCap THEN Prefix(@, FindingCap) ELSE @,
     !.suggestions = IF Len(@) > FindingCap THEN Prefix(@, FindingCap) ELSE @]

Http(status, body) == [status |-> status, body |-> body]

\* get_trade_analysis of src/app.py.  store_ok: the credentials are there and
\* the query succeeds; otherwise get_supabase_client or execute() raises.
GetTradeAnalysisApp ==
  /\ pc = "start"
  /\ \E store_ok \in BOOLEAN, choice \in Choices(Len(db)) :
       IF ~store_ok
       THEN /\ analysis' = None
            /\ store' = "error"
            /\ events' = Append(events, "store")
            /\ response' = Http(500, [detail |-> "Error analyzing trades"])
       ELSE LET a == AnalyzeTradesApp(db, choice)
            IN /\ analysis' = a
               /\ store' = "ok"
               /\ events' = events \o <<"store", "analyze">>
               /\ response' = IF a.raised
                              THEN Http(500, [detail |-> "Error analyzing trades"])
                              ELSE Http(200, TruncateAnalysis(a))
  /\ op' = "GET"
  /\ entry' = "app"
  /\ pc' = "done"
  /\ request' = [user_id |-> "u1"]
  /\ UNCHANGED <<db, generator, backend, coach_response>>

\* handler.do_GET of src/functions/trade-analysis.py
DoGetFn ==
  /\ pc = "start"
  /\ \E user_id \in {"", "u1"}, store_ok \in BOOLEAN :
       /\ request' = [user_id |-> user_id]
       /\ IF user_id = ""
          THEN /\ analysis' = None
               /\ store' = "none"
               /\ events' = events
               /\ response' = Http(400, [error |-> "Missing user_id parameter"])
          ELSE IF ~store_ok
          THEN /\ analysis' = None
               /\ store' = "error"
               /\ events' = Append(events, "store")
               /\ response' = Http(500, [error |-> "store"])
          ELSE LET a == AnalyzeTradesFn(db)
               IN /\ analysis' = a
                  /\ store' = "ok"
                  /\ events' = events \o <<"store", "analyze">>
                  /\ response' = IF a.raised
                                 THEN Http(500, [error |-> a.exc])
                                 ELSE Http(200, a)
  /\ op' = "GET"
  /\ entry' = "fn"
  /\ pc' = "done"
  /\ UNCHANGED <<db, generator, backend, coach_response>>

NextAnalyze == CallAnalyzeApp \/ CallAnalyzeFn \/ GetTradeAnalysisApp \/ DoGetFn

SpecAnalyze == InitAnalyze /\ [][NextAnalyze]_vars

\* ------------------------------------------------- claims on analyze_trades
\* What the claims say of the input, stated on the records themselves.
LabelAt(i) == IF db[i].trade_type.k = "val" THEN Strip(db[i].trade_type.v) ELSE << >>

DistinctLabels == {LabelAt(i) : i \in 1..Len(db)} \ {<< >>}

LabelCount(l) == Cardinality({i \in 1..Len(db) : LabelAt(i) = l})

FirstAt(l) == CHOOSE i \in 1..Len(db) : LabelAt(i) = l /\ \A j \in 1..(i - 1) : LabelAt(j) # l

PnlAt(i) == IF db[i].pnl.k = "val" THEN db[i].pnl.v ELSE 0

HasFear(i) == db[i].notes.k = "val" /\ Contains(db[i].notes.v, KwFear)

Analyzed == analysis # None /\ ~analysis.raised

WithinCaps(a) ==
  /\ Len(a.strategies) <= 5
  /\ Len(a.strengths) <= 3
  /\ Len(a.weaknesses) <= 3
  /\ Len(a.suggestions) <= 3

\* C1: whatever the input, the result of analyze_trades (either file) has at
\* most 5 strategies and at most 3 strengths, 3 weaknesses and 3 suggestions,
\* and so has the analysis a GET /api/trade-analysis response carries.
C1_LengthCaps ==
  /\ Analyzed => WithinCaps(analysis)
  /\ (op = "GET" /\ response # None /\ response.status = 200) => WithinCaps(response.body)

\* C1 witness: an answered GET over more than 5 distinct labels, cut to 5.
C1_Witness ==
  /\ op = "GET"
  /\ response # None /\ response.status = 200
  /\ Cardinality(DistinctLabels) > 5
  /\ Len(response.body.strategies) = 5

AllLosing == db # << >> /\ \A i \in 1..Len(db) : PnlAt(i) <= 0

\* C2 as claimed: all pnl <= 0 and some notes containing "fear" give both
\* weaknesses and the emotional-discipline suggestion, whatever the labels.
C2_Original ==
  (Analyzed /\ AllLosing /\ \E i \in 1..Len(db) : HasFear(i)) =>
    /\ Item("Below 50% win rate") \in Range(analysis.weaknesses)
    /\ Item("Emotional trading noted in multiple trades") \in Range(analysis.weaknesses)
    /\ Item("Work on emotional discipline during trading") \in Range(analysis.suggestions)

\* The records whose notes the analyzer is sure to read: all of them up to 50
\* records, the first 50 in trade-analysis.py; none is sure in app.py beyond 50.
SureSampled ==
  IF Len(db) <= 50 THEN 1..Len(db)
  ELSE IF entry = "fn" THEN 1..50
  ELSE {}

\* C2 amended: with all pnl <= 0 and "fear" in the notes of a record that is
\* read, weaknesses is exactly the three items below, and suggestions holds
\* the emotional-discipline item exactly when more than 2 distinct labels are
\* present; otherwise the cap of 3 cuts it off behind the three other items.
C2_Amended ==
  (Analyzed /\ AllLosing /\ \E i \in SureSampled : HasFear(i)) =>
    /\ analysis.weaknesses =
         << Item("Below 50% win rate"), Item("Negative average P&L"),
            Item("Emotional trading noted in multiple trades") >>
    /\ (Cardinality(DistinctLabels) > 2 <=>
          Item("Work on emotional discipline during trading") \in Range(analysis.suggestions))
    /\ (Cardinality(DistinctLabels) <= 2 =>
          analysis.suggestions =
            << Item("Focus on improving your win rate by reviewing losing trades"),
               Item("Work on improving your average profit per trade"),
               Item("Consider exploring more trading strategies to diversify your approach") >>)

\* C2 witness: losing trades under three labels, fear noted, suggestion kept.
C2_Witness ==
  /\ Analyzed /\ AllLosing
  /\ \E i \in SureSampled : HasFear(i)
  /\ Cardinality(DistinctLabels) > 2
  /\ Item("Work on emotional discipline during trading") \in Range(analysis.suggestions)

\* C3 as claimed: with more than 2 distinct labels, strengths holds "Diverse
\* trading approaches (N different strategies)" with N the number of distinct
\* labels in the input, also when N exceeds 5.
C3_DiverseCount ==
  (Analyzed /\ Cardinality(DistinctLabels) > 2) =>
    DiverseItem(Cardinality(DistinctLabels)) \in Range(analysis.strengths)

\* C4 as claimed: analyze_trades returns a result for every input, absent and
\* null columns included.
C4_NeverRaises == analysis # None => ~analysis.raised

Ahead(x, y) ==
  \/ LabelCount(x) > LabelCount(y)
  \/ LabelCount(x) = LabelCount(y) /\ FirstAt(x) < FirstAt(y)

\* C9: strategies holds trimmed non-empty labels of the input, each once, by
\* descending number of records, equal numbers in order of first appearance,
\* and it is the first 5 of the labels so ordered.
C9_Strategies ==
  Analyzed =>
    LET st == analysis.strategies
    IN /\ Len(st) = Min(5, Cardinality(DistinctLabels))
       /\ \A i \in 1..Len(st) : st[i] \in DistinctLabels
       /\ \A i, j \in 1..Len(st) : i < j => Ahead(st[i], st[j])
       /\ \A l \in DistinctLabels \ Range(st) : \A i \in 1..Len(st) : Ahead(st[i], l)

\* C9 witness: more than 5 labels, a label that overtakes an earlier one by its
\* count, and two kept labels of equal count.
C9_Witness ==
  /\ Analyzed
  /\ Cardinality(DistinctLabels) > 5
  /\ LET st == analysis.strategies
     IN /\ \E i, j \in 1..Len(st) : i < j /\ FirstAt(st[i]) > FirstAt(st[j])
        /\ \E i, j \in 1..Len(st) : i < j /\ LabelCount(st[i]) = LabelCount(st[j])

\* The records of the input that won: pnl is there and above 0
Winners == {i \in 1..Len(db) : db[i].pnl.k = "val" /\ db[i].pnl.v > 0}

\* The fraction f = <<numerator, denominator>> equals won / of and lies in [0,1]
IsFraction(f, won, of) ==
  /\ f[2] > 0
  /\ f[1] * of = won * f[2]
  /\ 0 <= f[1] /\ f[1] <= f[2]

\* C11: for a non-empty input, the win_rate analyze_trades returns (either
\* file), and the one a GET response carries, is the number of records with
\* pnl > 0 over the number of records, a record with pnl 0 or without pnl not
\* winning; it lies in [0,1].
C11_WinRate ==
  /\ (Analyzed /\ db # << >>) =>
       IsFraction(analysis.win_rate, Cardinality(Winners), Len(db))
  /\ (op = "GET" /\ response # None /\ response.status = 200 /\ db # << >>) =>
       IsFraction(response.body.win_rate, Cardinality(Winners), Len(db))

\* C11 witness: a result over a winner, a break-even record and a record
\* without pnl, with a win rate strictly between 0 and 1.
C11_Witness ==
  /\ Analyzed
  /\ \E i, j, k \in 1..Len(db) :
        /\ db[i].pnl = Val(0)
        /\ db[j].pnl = Absent
        /\ db[k].pnl.k = "val" /\ db[k].pnl.v > 0
  /\ analysis.win_rate[1] > 0
  /\ analysis.win_rate[1] < analysis.win_rate[2]

\* What the claim says of the empty input
EmptyStateResult ==
  [raised |-> FALSE,
   win_rate |-> <<0, 1>>,
   avg_profit_loss |-> <<0, 1>>,
   strategies |-> << >>,
   strengths |-> << >>,
   weaknesses |-> << >>,
   suggestions |-> <<Item("Start recording your trades to get personalized analysis.")>>]

\* C12: for the empty input analyze_trades (either file) returns win_rate 0.0,
\* avg_profit_loss 0.0, no strategies, strengths or weaknesses, and the one
\* suggestion "Start recording your trades to get personalized analysis."; no
\* rule adds an item, and a GET response carries the same result.
C12_EmptyInput ==
  /\ (analysis # None /\ db = << >>) => analysis = EmptyStateResult
  /\ (op = "GET" /\ response # None /\ store = "ok" /\ db = << >>) =>
       response = Http(200, EmptyStateResult)

\* C12 witness: analyze_trades was called directly on the empty sequence and
\* returned one suggestion.
C12_Witness ==
  /\ op = "analyze_trades" /\ pc = "done"
  /\ db = << >>
  /\ analysis # None /\ Len(analysis.suggestions) = 1

\* -------------------------------------------------- generate_coach_response
Marker == <<"Y","o","u","r"," ","h","e","l","p","f","u","l"," ","a","d","v","i","c","e",":">>

\* A reply read out of the generated text
Generated(text) == [kind |-> "generated", text |-> text]

\* A reply that is one fixed sentence (len: its number of characters)
Fixed(msg, len) == [kind |-> "fixed", msg |-> msg, len |-> len]

\* A reply built by a template: the pieces of the string, in order
Template(key, parts) == [kind |-> "template", key |-> key, parts |-> parts]

\* An exception that leaves generate_coach_response
Propagated == [kind |-> "raise"]

Trouble == Fixed("I'm having trouble analyzing your trades right now. Please try again later.", 75)

TooShort ==
  Fixed("Based on your trading performance, I recommend focusing on consistency and keeping detailed trade notes to identify patterns.", 125)

\* The nearest integer to num / den (den > 0), halves to the even neighbour
RoundHalfEven(num, den) ==
  LET q == num \div den
      r == num % den
  IN IF 2 * r < den THEN q
     ELSE IF 2 * r > den THEN q + 1
     ELSE IF q % 2 = 0 THEN q ELSE q + 1

\* win_rate_percent = round(win_rate * 100, 1), in tenths of a percent
WinRatePercent(a) == <<"percent, tenths", RoundHalfEven(1000 * a.win_rate[1], a.win_rate[2])>>

\* f"{avg_pnl:.2f}", in cents
Money(a) == <<"dollars, cents", RoundHalfEven(100 * a.avg_profit_loss[1], a.avg_profit_loss[2])>>

\* avg_pnl > 0
PositiveAvg(a) == a.avg_profit_loss[1] > 0

\* ", ".join(items) if items else fallback, as pieces
JoinedOr(items, fallback) ==
  IF items = << >> THEN <<Item(fallback)>>
  ELSE [i \in 1..(2 * Len(items) - 1) |-> IF i % 2 = 1 THEN items[(i + 1) \div 2] ELSE Item(", ")]

KeyDoing == <<"h","o","w"," ","a","m"," ","i"," ","d","o","i","n","g">>
KeyImprove == <<"w","h","a","t"," ","s","h","o","u","l","d"," ","i"," ","i","m","p","r","o","v","e">>
KeyStrengths == <<"w","h","a","t"," ","a","r","e"," ","m","y"," ","s","t","r","e","n","g","t","h","s">>
KeyWeaknesses == <<"w","h","a","t"," ","a","r","e"," ","m","y"," ","w","e","a","k","n","e","s","s","e","s">>

TemplateKeysReversed == <<KeyWeaknesses, KeyStrengths, KeyImprove, KeyDoing>>

\* The keys of the responses dict, in the order the dict literal gives them
\* (the order in which responses.items() yields them)
TemplateKeys == <<KeyDoing, KeyImprove, KeyStrengths, KeyWeaknesses>>

\* responses[key]
ResponseFor(key, a) ==
  IF key = KeyDoing
  THEN Template("how am i doing",
         << Item("Based on your trading metrics, you have a "), WinRatePercent(a),
            Item("% win rate with an average P&L of $"), Money(a), Item(". "),
            IF PositiveAvg(a)
            THEN Item("Your consistent positive results show good trading discipline. ")
            ELSE Item("Focus on improving your risk management to achieve positive results. ") >>)
  ELSE IF key = KeyImprove
  THEN Template("what should i improve",
         <<Item("Based on your trading data, I recommend: ")>>
         \o JoinedOr(a.suggestions, "Keeping detailed notes on each trade to identify patterns."))
  ELSE IF key = KeyStrengths
  THEN Template("what are my strengths",
         <<Item("Your trading strengths include: ")>>
         \o JoinedOr(a.strengths, "Not enough data to determine specific strengths yet."))
  ELSE Template("what are my weaknesses",
         <<Item("Areas for improvement include: ")>>
         \o JoinedOr(a.weaknesses, "Not enough data to determine specific weaknesses yet."))

\* default_response
DefaultResponse(a) ==
  Template("default",
    << Item("Based on your trading history with a "), WinRatePercent(a),
       Item("% win rate and $"), Money(a), Item(" average P&L, "),
       Item("I recommend focusing on consistency and keeping detailed trade notes.") >>)

\* The template path of trade-analysis.py: the response of the first key, in
\* dict order, that the lower-cased message contains; else the default.
TemplateResponse(user_message, a) ==
  LET hits == {i \in 1..Len(TemplateKeys) : Contains(Lower(user_message), TemplateKeys[i])}
  IN IF hits = {} THEN DefaultResponse(a)
     ELSE ResponseFor(TemplateKeys[CHOOSE i \in hits : \A j \in hits : i <= j], a)

\* advice_part = generated_text.split("Your helpful advice:")[-1].strip()
AdvicePart(generated_text) == Strip(AfterLast(generated_text, Marker))

AdviceUsableAnyLength(advice_part) == advice_part # << >>

\* if advice_part and len(advice_part) >= 10
AdviceUsable(advice_part) == advice_part # << >> /\ Len(advice_part) >= MinAdviceLen

CapAdviceOff(advice_part) == advice_part

\* advice_part[:500]
CapAdvice(advice_part) == Prefix(advice_part, AdviceCap)

\* What the generator call can do.  The code reads sequences[0]['generated_text']
\* and splits it: an empty list, a missing key or a value that is no string
\* raise inside the try block, like an error of the pipeline itself.
BackendRaise == [k |-> "raise"]
BackendMalformed(why) == [k |-> "malformed", why |-> why]
BackendText(text) == [k |-> "text", text |-> text]

ExceptFnPropagates(user_message, a) == Propagated

\* except Exception in trade-analysis.py: print, then fall to the templates
ExceptFn(user_message, a) == TemplateResponse(user_message, a)

\* except Exception in app.py: print, return the fixed sentence
ExceptApp == Trouble

\* generate_coach_response of src/functions/trade-analysis.py.  loaded:
\* HAS_TRANSFORMERS and generator is not None; outcome: what the generator does
\* when it is called.
GenerateCoachResponseFn(user_message, a, loaded, outcome) ==
  IF loaded /\ outcome.k # "text" THEN ExceptFn(user_message, a)
  ELSE IF loaded /\ AdviceUsable(AdvicePart(outcome.text))
  THEN Generated(CapAdvice(AdvicePart(outcome.text)))
  ELSE TemplateResponse(user_message, a)

\* generate_coach_response of src/app.py
GenerateCoachResponseApp(user_message, a, loaded, outcome) ==
  IF ~loaded THEN Trouble
  ELSE IF outcome.k # "text" THEN ExceptApp
  ELSE IF ~AdviceUsable(AdvicePart(outcome.text)) THEN TooShort
  ELSE Generated(AdvicePart(outcome.text))

\* ----------------------------------------------------------- POST /api/chat
THello == <<"H","e","l","l","o">>
TDoing == <<"H","o","w"," ","a","m"," ","I"," ","d","o","i","n","g","?">>
TImprove == <<"W","h","a","t"," ","S","h","o","u","l","d"," ","I"," ","I","m","p","r","o","v","e","?">>
TStrengths == <<"w","h","a","t"," ","a","r","e"," ","m","y"," ","s","t","r","e","n","g","t","h","s">>
TWeaknesses == <<"W","H","A","T"," ","A","R","E"," ","M","Y"," ","W","E","A","K","N","E","S","S","E","S">>
TWeakThenDoing ==
  <<"w","h","a","t"," ","a","r","e"," ","m","y"," ","w","e","a","k","n","e","s","s","e","s",
    " ","a","n","d"," ","h","o","w"," ","a","m"," ","i"," ","d","o","i","n","g">>
TStrengthsThenImprove ==
  <<"W","h","a","t"," ","a","r","e"," ","m","y"," ","s","t","r","e","n","g","t","h","s","?",
    " ","W","h","a","t"," ","s","h","o","u","l","d"," ","I"," ","i","m","p","r","o","v","e","?">>

UserTexts == {THello, TDoing, TImprove, TStrengths, TWeaknesses, TWeakThenDoing, TStrengthsThenImprove}

Message(role, content) == [role |-> role, content |-> content]

\* The messages lists of the requests: none, no user message, an empty user
\* message, an empty user message behind a filled one, each text as the user's
\* only message before an assistant's, and a user message behind another.
MessageLists ==
  { << >>,
    <<Message("assistant", THello)>>,
    <<Message("user", << >>)>>,
    <<Message("user", THello), Message("user", << >>)>>,
    <<Message("user", TDoing), Message("assistant", THello), Message("user", THello)>> }
  \cup {<<Message("user", t), Message("assistant", THello)>> : t \in UserTexts}

\* user_id: the key is absent, an empty string, an identifier
UserIds == {Null, Val(""), Val("u1")}

\* A body that is no JSON object of this shape, or the parsed request
Requests ==
  {[parsed |-> FALSE]}
  \cup {[parsed |-> TRUE, user_id |-> u, messages |-> m] : u \in UserIds, m \in MessageLists}

TruthyIdAlways(u) == TRUE

\* Python truth value of user_id: None and "" are falsy
TruthyId(u) == u.k = "val" /\ u.v # ""

\* for msg in reversed(messages): if role == "user": last_message = content; break
LastUserMessage(messages) ==
  LET users == {i \in 1..Len(messages) : messages[i].role = "user"}
  IN IF users = {} THEN Null
     ELSE Val(messages[CHOOSE i \in users : \A j \in users : j <= i].content)

\* What the store holds in the chat runs
ChatInputs ==
  { << >>,
    <<Trade(Val(5), Val(TA), Val(NPlan))>>,
    <<Trade(Val(-3), Val(TA), Val(NFear))>>,
    <<Trade(Null, Val(TA), Val(NOk))>>,
    <<Trade(Val(5), Val(TA), Val(NPlan)), Trade(Val(5), Val(TBPadded), Val(NPlanUpper)),
      Trade(Val(5), Val(TC), Val(<< >>))>>,
    <<Trade(Val(5), Val(TA), Val(NPlan)), Trade(Val(-3), Val(TA), Val(NFear)),
      Trade(Val(-3), Val(TB), Val(NGreed))>> }

TAdvice10 == <<"T","r","a","d","e"," ","l","e","s","s">>
TAdvice7 == <<"B","u","y"," ","n","o","w">>
TPrompt == <<"Q",":"," ">>

\* The texts the generator returns: the prompt and the marker, then an advice
\* of 0, 7, 9, 10, 500, 501, 1000 and 1001 characters inside whitespace; a text
\* without the marker; a text with the marker twice.
GeneratedTexts ==
  { TPrompt \o Marker,
    TPrompt \o Marker \o <<" ", "\n">>,
    TAdvice10 \o <<".">>,
    TPrompt \o Marker \o Rep("y", 12) \o Marker \o <<" ">> \o TAdvice10 }
  \cup { TPrompt \o Marker \o <<" ">> \o advice \o <<"\n">> :
           advice \in {TAdvice7, Rep("x", MinAdviceLen - 1), TAdvice10, Rep("x", AdviceCap),
                       Rep("x", AdviceCap + 1), Rep("x", ChatCap), Rep("x", ChatCap + 1)} }

BackendOutcomes ==
  {BackendRaise}
  \cup {BackendMalformed(why) : why \in {"empty list", "no generated_text", "not a string"}}
  \cup {BackendText(t) : t \in GeneratedTexts}

Init ==
  /\ db \in ChatInputs
  /\ generator \in {"loaded", "none"}
  /\ op = "none"
  /\ entry = "none"
  /\ pc = "start"
  /\ request = None
  /\ store = "none"
  /\ backend = None
  /\ analysis = None
  /\ coach_response = None
  /\ response = None
  /\ events = << >>

Finish(status, body) ==
  /\ response' = Http(status, body)
  /\ pc' = "done"

\* handler.do_POST of trade-analysis.py, up to the store query
ReceiveFn ==
  /\ pc = "start"
  /\ \E r \in Requests :
       /\ request' = r
       /\ IF ~r.parsed THEN Finish(500, [error |-> "exception"])
          ELSE IF ~TruthyId(r.user_id) THEN Finish(400, [error |-> "Missing user_id"])
          ELSE IF ~Truthy(LastUserMessage(r.messages))
          THEN Finish(400, [error |-> "No user message found"])
          ELSE /\ pc' = "read"
               /\ response' = response
  /\ op' = "POST"
  /\ entry' = "fn"
  /\ UNCHANGED <<db, generator, store, backend, analysis, coach_response, events>>

TNoMessage == Fixed("I didn't receive a message to respond to.", 41)

\* chat of app.py, up to the store query.  Before the function body runs the
\* framework reads the JSON body, resolves Depends(get_supabase_client), which
\* raises HTTPException(500) without credentials, and validates the body
\* against ChatRequest, whose user_id is a required str (FastAPI answers a
\* rejected body with 422; an empty string is a valid user_id).
ReceiveApp ==
  /\ pc = "start"
  /\ \E r \in Requests, credentials \in BOOLEAN :
       /\ request' = r
       /\ IF ~r.parsed THEN Finish(422, [detail |-> "validation"])
          ELSE IF ~credentials THEN Finish(500, [detail |-> "Missing Supabase credentials"])
          ELSE IF r.user_id = Null THEN Finish(422, [detail |-> "validation"])
          ELSE IF ~Truthy(LastUserMessage(r.messages))
          THEN Finish(200, [response |-> TNoMessage])
          ELSE /\ pc' = "read"
               /\ response' = response
  /\ op' = "POST"
  /\ entry' = "app"
  /\ UNCHANGED <<db, generator, store, backend, analysis, coach_response, events>>

ReadStoreGoesOn ==
  /\ pc = "read"
  /\ \E ok \in BOOLEAN : store' = IF ok THEN "ok" ELSE "error"
  /\ pc' = "analyze"
  /\ response' = response
  /\ events' = Append(events, "store")
  /\ UNCHANGED <<db, generator, op, entry, request, backend, analysis, coach_response>>

\* The one read of the store: query_supabase (trade-analysis.py) returns an
\* error dict, execute() (app.py) raises; both end the request with 500.
ReadStore ==
  /\ pc = "read"
  /\ \E ok \in BOOLEAN :
       IF ok
       THEN /\ store' = "ok"
            /\ pc' = "analyze"
            /\ response' = response
       ELSE /\ store' = "error"
            /\ Finish(500, IF entry = "fn" THEN [error |-> "store"]
                                            ELSE [detail |-> "Error processing chat"])
  /\ events' = Append(events, "store")
  /\ UNCHANGED <<db, generator, op, entry, request, backend, analysis, coach_response>>

\* analysis = analyze_trades(trades); an exception is caught by the handler's
\* except clause and answered 500.
Analyze ==
  /\ pc = "analyze"
  /\ \E choice \in Choices(Len(db)) :
       LET a == IF entry = "fn" THEN AnalyzeTradesFn(db) ELSE AnalyzeTradesApp(db, choice)
       IN /\ analysis' = a
          /\ IF a.raised
             THEN Finish(500, IF entry = "fn" THEN [error |-> a.exc]
                                               ELSE [detail |-> "Error processing chat"])
             ELSE /\ pc' = "generate"
                  /\ response' = response
  /\ events' = Append(events, "analyze")
  /\ UNCHANGED <<db, generator, op, entry, request, store, backend, coach_response>>

\* len(r) for a reply
ReplyLen(r) == IF r.kind = "generated" THEN Len(r.text) ELSE r.len

TruncationMark ==
  <<".",".","."," ","[","r","e","s","p","o","n","s","e"," ","t","r","u","n","c","a","t","e","d","]">>

\* chat: if len(coach_response) > 1000: coach_response[:1000] + "... [response truncated]"
\* (only a generated reply can be that long)
ChatTruncate(r) ==
  IF ReplyLen(r) > ChatCap THEN Generated(Prefix(r.text, ChatCap) \o TruncationMark) ELSE r

\* do_POST from generate_coach_response to the 200 response
GenerateFn ==
  /\ pc = "generate" /\ entry = "fn"
  /\ LET user_message == LastUserMessage(request.messages).v
     IN IF generator = "loaded"
        THEN \E outcome \in BackendOutcomes :
               /\ backend' = outcome
               /\ events' = Append(events, "generate")
               /\ coach_response' = GenerateCoachResponseFn(user_message, analysis, TRUE, outcome)
        ELSE /\ backend' = backend
             /\ events' = events
             /\ coach_response' = GenerateCoachResponseFn(user_message, analysis, FALSE, None)
  /\ IF coach_response'.kind = "raise"
     THEN Finish(500, [error |-> "exception"])
     ELSE Finish(200, [response |-> coach_response', analysis |-> analysis])
  /\ UNCHANGED <<db, generator, op, entry, request, store, analysis>>

\* chat from generate_coach_response to the returned body
GenerateApp ==
  /\ pc = "generate" /\ entry = "app"
  /\ LET user_message == LastUserMessage(request.messages).v
     IN IF generator = "loaded"
        THEN \E outcome \in BackendOutcomes :
               /\ backend' = outcome
               /\ events' = Append(events, "generate")
               /\ coach_response' = GenerateCoachResponseApp(user_message, analysis, TRUE, outcome)
        ELSE /\ backend' = backend
             /\ events' = events
             /\ coach_response' = GenerateCoachResponseApp(user_message, analysis, FALSE, None)
  /\ IF coach_response'.kind = "raise"
     THEN Finish(500, [detail |-> "Error processing chat"])
     ELSE Finish(200, [response |-> ChatTruncate(coach_response'),
                       analysis |-> TruncateAnalysis(analysis)])
  /\ UNCHANGED <<db, generator, op, entry, request, store, analysis>>

Next == ReceiveFn \/ ReceiveApp \/ ReadStore \/ Analyze \/ GenerateFn \/ GenerateApp

Spec == Init /\ [][Next]_vars

\* --------------------------------------- claims on the coach and the chat
\* generate_coach_response has returned (or raised)
Replied == coach_response # None

\* The user message it was called with
UserMessage == LastUserMessage(request.messages).v

\* The backend was called and returned a text; Advice is what follows the last
\* marker in it, trimmed
GotText == backend # None /\ backend.k = "text"

Advice == Strip(AfterLast(backend.text, Marker))

BackendFailed == backend # None /\ backend.k \in {"raise", "malformed"}

AdviceTooShort == GotText /\ (Advice = << >> \/ Len(Advice) < 10)

\* The reply the response carries
Delivered == response.body.response

\* C5 as claimed: on an empty or short advice, or an error of the backend, the
\* reply is the template path's reply, on both entry points.
C5_Original ==
  (Replied /\ (AdviceTooShort \/ BackendFailed)) =>
    coach_response = TemplateResponse(UserMessage, analysis)

\* C5 amended: in trade-analysis.py the reply is then the template path's
\* reply; in app.py, which has no templates, it is a fixed sentence: the
\* "recommend focusing on consistency" one on a short or empty advice, the
\* "having trouble" one on an error of the backend.
C5_Amended ==
  /\ (Replied /\ entry = "fn" /\ (AdviceTooShort \/ BackendFailed)) =>
       coach_response = TemplateResponse(UserMessage, analysis)
  /\ (Replied /\ entry = "app" /\ AdviceTooShort) => coach_response = TooShort
  /\ (Replied /\ entry = "app" /\ BackendFailed) => coach_response = Trouble

\* C5 witness: trade-analysis.py answers a 9-character advice with the
\* strengths template.
C5_Witness ==
  /\ Replied /\ entry = "fn"
  /\ GotText /\ Len(Advice) = 9
  /\ coach_response.kind = "template"
  /\ coach_response.key = "what are my strengths"

\* C6 as claimed: an advice of 10 characters or more is delivered as its
\* first 500 characters and nothing else, on every entry point.
C6_Original ==
  (Replied /\ GotText /\ Len(Advice) >= 10) =>
    /\ coach_response = Generated(Prefix(Advice, 500))
    /\ Delivered = Generated(Prefix(Advice, 500))
    /\ Len(Delivered.text) <= 500

\* C6 amended: trade-analysis.py returns and delivers the first 500
\* characters of the advice; app.py returns the advice whole, and its chat
\* handler delivers it whole up to 1000 characters, else its first 1000
\* characters followed by "... [response truncated]".
C6_Amended ==
  /\ (Replied /\ entry = "fn" /\ GotText /\ Len(Advice) >= 10) =>
       /\ coach_response = Generated(Prefix(Advice, 500))
       /\ Delivered = Generated(Prefix(Advice, 500))
       /\ Len(Delivered.text) <= 500
  /\ (Replied /\ entry = "app" /\ GotText /\ Len(Advice) >= 10) =>
       /\ coach_response = Generated(Advice)
       /\ Delivered = IF Len(Advice) <= 1000 THEN Generated(Advice)
                      ELSE Generated(Prefix(Advice, 1000) \o TruncationMark)
       /\ Len(Delivered.text) <= 1024

\* C6 witness: trade-analysis.py delivers 500 characters of a longer advice.
C6_Witness ==
  /\ Replied /\ entry = "fn"
  /\ GotText /\ Len(Advice) > 500
  /\ response.status = 200
  /\ Len(Delivered.text) = 500

IsString(r) == r.kind \in {"generated", "fixed", "template"}

\* C7: whatever the message, the analysis and the backend do, a call of
\* generate_coach_response returns a string; no error leaves it, and the
\* handler answers 200.
C7_AlwaysAString ==
  /\ Replied => IsString(coach_response) /\ response.status = 200
  /\ (pc = "done" /\ store = "ok" /\ Analyzed) => Replied

\* C7 witness: the backend raised and a string came back.
C7_Witness ==
  /\ Replied
  /\ backend # None /\ backend.k = "raise"
  /\ IsString(coach_response)

\* C8: a template reply of trade-analysis.py is the template of the first of
\* "how am i doing", "what should i improve", "what are my strengths", "what
\* are my weaknesses" that the lower-cased message contains, the default
\* template when it contains none.
C8_TemplateOrder ==
  (Replied /\ entry = "fn" /\ coach_response.kind = "template") =>
    LET m == Lower(UserMessage)
    IN /\ coach_response =
            IF Contains(m, KeyDoing) THEN ResponseFor(KeyDoing, analysis)
            ELSE IF Contains(m, KeyImprove) THEN ResponseFor(KeyImprove, analysis)
            ELSE IF Contains(m, KeyStrengths) THEN ResponseFor(KeyStrengths, analysis)
            ELSE IF Contains(m, KeyWeaknesses) THEN ResponseFor(KeyWeaknesses, analysis)
            ELSE DefaultResponse(analysis)
       /\ coach_response.key =
            IF Contains(m, KeyDoing) THEN "how am i doing"
            ELSE IF Contains(m, KeyImprove) THEN "what should i improve"
            ELSE IF Contains(m, KeyStrengths) THEN "what are my strengths"
            ELSE IF Contains(m, KeyWeaknesses) THEN "what are my weaknesses"
            ELSE "default"

\* C8 witness: a mixed-case message with "what are my strengths" ahead of
\* "what should i improve" gets the improve template.
C8_Witness ==
  /\ Replied /\ entry = "fn"
  /\ UserMessage = TStrengthsThenImprove
  /\ coach_response.kind = "template"
  /\ coach_response.key = "what should i improve"

Answered == op = "POST" /\ pc = "done"

NoUserMessage == \A i \in 1..Len(request.messages) : request.messages[i].role # "user"

PassedChecks ==
  /\ request.parsed
  /\ IF entry = "fn" THEN request.user_id \notin {Null, Val("")} ELSE request.user_id # Null
  /\ \E i \in 1..Len(request.messages) :
        /\ request.messages[i].role = "user"
        /\ request.messages[i].content # << >>
        /\ \A j \in (i + 1)..Len(request.messages) : request.messages[j].role # "user"
  /\ response # Http(500, [detail |-> "Missing Supabase credentials"])

ChatOrder == <<"store", "analyze", "generate">>

\* C13: in a chat request the store read, analyze_trades and the backend call
\* happen in that order and each at most once (nothing is retried); a request
\* that passed the checks has read the store exactly once when it is answered,
\* one that did not has read nothing; after a failed store read neither
\* analyze_trades nor the backend is called.
C13_EventOrder ==
  /\ \E k \in 0..Len(ChatOrder) : events = Prefix(ChatOrder, k)
  /\ (analysis # None) <=> ("analyze" \in Range(events))
  /\ (backend # None) <=> ("generate" \in Range(events))
  /\ (store # "none") <=> ("store" \in Range(events))
  /\ (Answered /\ PassedChecks) =>
       Cardinality({i \in 1..Len(events) : events[i] = "store"}) = 1
  /\ (Answered /\ ~PassedChecks) => events = << >>
  /\ store = "error" =>
       /\ events = <<"store">>
       /\ analysis = None /\ backend = None /\ coach_response = None

\* C13 witness: an answered request that read the store, analysed the trades
\* and called the backend.
C13_Witness ==
  /\ Answered
  /\ response.status = 200
  /\ events = ChatOrder
  /\ store = "ok" /\ analysis # None /\ backend # None

====
